---- MODULE Spec2Model ----
(***************************************************************************)
(* Model of the pink-morsel ETL script (build_pink_morsels_output.py) and  *)
(* of the sales dashboard (app.py).                                        *)
(*                                                                         *)
(* A CSV file is modelled as the table pandas.read_csv returns for it: a   *)
(* sequence of column names and a sequence of rows, each row a function    *)
(* from column name to cell.  A cell is missing (NaN), a text (a sequence  *)
(* of one-character strings), a number (an exact decimal m / 10^e) or a    *)
(* timestamp.  Floating point arithmetic is modelled by exact decimals.    *)
(***************************************************************************)
EXTENDS Integers, Sequences, FiniteSets, TLC

VARIABLES
    astype_str_keeps_na, \* pandas build: does Series.astype(str) keep NaN missing (pandas >= 3) or yield the text "nan"
    data_dir,            \* ETL: the data directory, a function from the names of its entries to their tables
    pc,                  \* ETL: position of main()
    files,               \* ETL: build_output's local `files`
    frames,              \* ETL: the frames the list comprehension of build_output has loaded so far
    out,                 \* ETL: main's local `out`
    err,                 \* ETL: the exception in flight / caught by main
    output_file,         \* ETL: content of the file at args.output
    stdout,              \* ETL: what main printed on standard output
    stderr,              \* ETL: what main printed on standard error
    exit_code,           \* ETL: the value main returned
    extract,             \* dashboard: the table read from DATA_PATH
    app_pc,              \* dashboard: "import" before the module-level load, "serving" after
    df,                  \* dashboard: the module-level table `df`
    selection,           \* dashboard: value of the region-filter radio items
    figure,              \* dashboard: figure of the sales-chart graph
    first_figure         \* history: for each selection, the first figure update_chart returned for it

vars == <<astype_str_keeps_na, data_dir, pc, files, frames, out, err, output_file,
          stdout, stderr, exit_code, extract, app_pc, df, selection, figure, first_figure>>

etl_vars == <<data_dir, pc, files, frames, out, err, output_file, stdout, stderr, exit_code>>

dash_vars == <<extract, app_pc, df, selection, figure, first_figure>>

----------------------------------------------------------------------------
(* Bounds *)

\* longest price text enumerated exhaustively
MaxPriceLen == 4

\* most rows over all files of the data directory
MaxRows == 2

\* most rows of the dashboard's extract
MaxExtractRows == 3

----------------------------------------------------------------------------
(* Cells *)

NaN == [k |-> "nan", s |-> <<>>, m |-> 0, e |-> 0]

Text(s) == [k |-> "text", s |-> s, m |-> 0, e |-> 0]

RECURSIVE NormM(_, _)
NormM(m, e) == IF e > 0 /\ m % 10 = 0 THEN NormM(m \div 10, e - 1) ELSE m

RECURSIVE NormE(_, _)
NormE(m, e) == IF e > 0 /\ m % 10 = 0 THEN NormE(m \div 10, e - 1) ELSE e

\* the number m / 10^e, in lowest decimal form
Num(m, e) == [k |-> "num", s |-> <<>>, m |-> NormM(m, e), e |-> NormE(m, e)]

\* a timestamp, ordered as the calendar is
Timestamp(o) == [k |-> "ts", s |-> <<>>, m |-> o, e |-> 0]

isna(c) == c.k = "nan"

Digits == {"0", "1", "2", "3", "4", "5", "6", "7", "8", "9"}

DigitVal(c) ==
    CASE c = "0" -> 0 [] c = "1" -> 1 [] c = "2" -> 2 [] c = "3" -> 3 [] c = "4" -> 4
      [] c = "5" -> 5 [] c = "6" -> 6 [] c = "7" -> 7 [] c = "8" -> 8 [] c = "9" -> 9

RECURSIVE Pow10(_)
Pow10(n) == IF n = 0 THEN 1 ELSE 10 * Pow10(n - 1)

----------------------------------------------------------------------------
(* pandas string methods, on texts *)

\* str.replace(old, "", regex=False) for a one-character old
str_replace(s, old) == SelectSeq(s, LAMBDA c : c # old)

RECURSIVE lstrip(_)
lstrip(s) == IF s # <<>> /\ Head(s) = " " THEN lstrip(Tail(s)) ELSE s

RECURSIVE rstrip(_)
rstrip(s) == IF s # <<>> /\ s[Len(s)] = " " THEN rstrip(SubSeq(s, 1, Len(s) - 1)) ELSE s

str_strip(s) == rstrip(lstrip(s))

LowerChar(c) ==
    CASE c = "N" -> "n" [] c = "S" -> "s" [] c = "E" -> "e" [] c = "W" -> "w"
      [] c = "P" -> "p" [] c = "M" -> "m" [] OTHER -> c

str_lower(s) == [i \in 1..Len(s) |-> LowerChar(s[i])]

\* Series.astype(str) on one cell: a text stays, a missing value becomes the
\* text "nan" or stays missing, depending on the pandas build
astype_str(c) ==
    IF isna(c) THEN (IF astype_str_keeps_na THEN NaN ELSE Text(<<"n", "a", "n">>)) ELSE c

\* the .str methods on one cell; a missing cell stays missing
cell_replace(c, old) == IF c.k = "text" THEN Text(str_replace(c.s, old)) ELSE c

cell_strip(c) == IF c.k = "text" THEN Text(str_strip(c.s)) ELSE c

cell_lower(c) == IF c.k = "text" THEN Text(str_lower(c.s)) ELSE c

----------------------------------------------------------------------------
(* pd.to_numeric(errors="coerce") on one cell *)

RECURSIVE DigitsToInt(_)
DigitsToInt(s) == IF s = <<>> THEN 0 ELSE 10 * DigitsToInt(SubSeq(s, 1, Len(s) - 1)) + DigitVal(s[Len(s)])

\* number of characters after the first "." of s
FracLen(s) ==
    IF \E i \in 1..Len(s) : s[i] = "."
    THEN Len(s) - (CHOOSE i \in 1..Len(s) : s[i] = "." /\ \A j \in 1..(i - 1) : s[j] # ".")
    ELSE 0

\* the decimal literals the parser accepts: digits with at most one ".", at least one digit
IsDecimalLiteral(s) ==
    /\ \A i \in 1..Len(s) : s[i] \in Digits \cup {"."}
    /\ Cardinality({i \in 1..Len(s) : s[i] = "."}) <= 1
    /\ \E i \in 1..Len(s) : s[i] \in Digits

to_numeric(c) ==
    IF c.k = "num" THEN c
    ELSE IF c.k # "text" THEN NaN
    ELSE LET t == str_strip(c.s) IN
         IF IsDecimalLiteral(t)
         THEN Num(DigitsToInt(SelectSeq(t, LAMBDA ch : ch # ".")), FracLen(t))
         ELSE NaN

Mul(a, b) == Num(a.m * b.m, a.e + b.e)

----------------------------------------------------------------------------
(* Tables (pandas DataFrame): [columns : sequence of names, rows : sequence   *)
(* of functions from the names to cells]                                      *)

Range(q) == {q[i] : i \in 1..Len(q)}

RECURSIVE FlattenSeq(_)
FlattenSeq(qs) == IF qs = <<>> THEN <<>> ELSE Head(qs) \o FlattenSeq(Tail(qs))

\* append to q the elements of r that q does not have yet, in r's order
RECURSIVE UnionColumns(_, _)
UnionColumns(q, r) ==
    IF r = <<>> THEN q
    ELSE UnionColumns(IF Head(r) \in Range(q) THEN q ELSE Append(q, Head(r)), Tail(r))

RECURSIVE AllColumns(_)
AllColumns(fs) == IF fs = <<>> THEN <<>> ELSE UnionColumns(Head(fs).columns, AllColumns(Tail(fs)))

\* a row over the columns cols; a column the row lacks is filled with NaN
Reindex(row, cols) == [c \in Range(cols) |-> IF c \in DOMAIN row THEN row[c] ELSE NaN]

\* pd.concat(frames, ignore_index=True)
concat(fs) ==
    LET cols == AllColumns(fs) IN
    [columns |-> cols,
     rows |-> FlattenSeq([i \in 1..Len(fs) |->
                 [j \in 1..Len(fs[i].rows) |-> Reindex(fs[i].rows[j], cols)]])]

\* the rows of q at the positions where mask is true, in order
RECURSIVE take(_, _)
take(q, mask) ==
    IF q = <<>> THEN <<>>
    ELSE (IF Head(mask) THEN <<Head(q)>> ELSE <<>>) \o take(Tail(q), Tail(mask))

\* df[mask], mask a boolean per row
boolean_index(t, mask) == [columns |-> t.columns, rows |-> take(t.rows, mask)]

\* df.dropna(subset=cols)
dropna(t, subset) ==
    boolean_index(t, [i \in 1..Len(t.rows) |-> \A c \in subset : ~isna(t.rows[i][c])])

\* df[name] = values, a value per row: a new column is appended, an existing one is overwritten
assign_column(t, name, values) ==
    [columns |-> IF name \in Range(t.columns) THEN t.columns ELSE Append(t.columns, name),
     rows |-> [i \in 1..Len(t.rows) |->
                 [c \in Range(t.columns) \cup {name} |->
                     IF c = name THEN values[i] ELSE t.rows[i][c]]]]

\* df[[names]]: the listed columns, in the listed order
select_columns(t, names) ==
    [columns |-> names,
     rows |-> [i \in 1..Len(t.rows) |-> [c \in Range(names) |-> t.rows[i][c]]]]

\* df.columns = names: the columns are renamed by position
set_columns(t, names) ==
    [columns |-> names,
     rows |-> [i \in 1..Len(t.rows) |->
                 [c \in Range(names) |->
                     t.rows[i][t.columns[CHOOSE k \in 1..Len(names) : names[k] = c]]]]]

EmptyTable == [columns |-> <<>>, rows |-> <<>>]

----------------------------------------------------------------------------
(* build_pink_morsels_output.py *)

REQUIRED_COLUMNS == {"product", "quantity", "price", "date", "region"}

PinkMorsel == <<"p", "i", "n", "k", " ", "m", "o", "r", "s", "e", "l">>

CsvSuffix == <<".", "c", "s", "v">>

CharCode(c) ==
    CASE c = "." -> 46 [] c = "a" -> 97 [] c = "b" -> 98 [] c = "c" -> 99
      [] c = "e" -> 101 [] c = "n" -> 110 [] c = "o" -> 111 [] c = "s" -> 115
      [] c = "t" -> 116 [] c = "v" -> 118 [] c = "x" -> 120

\* str < str of Python: lexicographic by code point
RECURSIVE StrLess(_, _)
StrLess(a, b) ==
    IF b = <<>> THEN FALSE
    ELSE IF a = <<>> THEN TRUE
    ELSE IF Head(a) # Head(b) THEN CharCode(Head(a)) < CharCode(Head(b))
    ELSE StrLess(Tail(a), Tail(b))

\* sorted(names), for distinct names
RECURSIVE sorted(_)
sorted(q) ==
    IF q = <<>> THEN <<>>
    ELSE LET i == CHOOSE i \in 1..Len(q) : \A j \in 1..Len(q) : j = i \/ StrLess(q[i], q[j])
         IN <<q[i]>> \o sorted([k \in 1..(Len(q) - 1) |-> IF k < i THEN q[k] ELSE q[k + 1]])

\* the names glob.glob(os.path.join(data_dir, "*.csv")) matches: the entries
\* whose name does not start with "." and ends with ".csv"
glob_csv(dir) ==
    {n \in DOMAIN dir : /\ Len(n) >= Len(CsvSuffix)
                        /\ Head(n) # "."
                        /\ SubSeq(n, Len(n) - Len(CsvSuffix) + 1, Len(n)) = CsvSuffix}

\* the orders glob.glob may list the names S in: every one
Listings(S) ==
    {q \in [1..Cardinality(S) -> S] : \A i \in DOMAIN q : \A j \in DOMAIN q : i # j => q[i] # q[j]}

\* mutant: the files in the order glob lists them, not sorted
find_csv_files_unsorted(listing) == listing

\* the value of find_csv_files when glob.glob lists the names as `listing`
find_csv_files(listing) == sorted(listing)

\* pd.read_csv(path)
read_csv(dir, path) == dir[path]

NoError == [type |-> "none", path |-> <<>>, missing |-> {}, found |-> <<>>]

FileNotFoundError == [type |-> "FileNotFoundError", path |-> <<>>, missing |-> {}, found |-> <<>>]

ValueError(path, missing, found) ==
    [type |-> "ValueError", path |-> path, missing |-> missing, found |-> found]

\* mutant: the thousands separators are not removed
clean_price_keep_commas(c) == to_numeric(cell_strip(cell_replace(astype_str(c), "$")))

\* lines 45-52: the price column, one cell
clean_price(c) == to_numeric(cell_strip(cell_replace(cell_replace(astype_str(c), "$"), ",")))

\* mutant: the product is lower-cased as well as trimmed
clean_product_lower(c) == cell_lower(cell_strip(astype_str(c)))

\* line 55: the product column, one cell
clean_product(c) == cell_strip(astype_str(c))

\* mutant: the set difference of the column check is reversed
load_and_validate_csv_reversed(dir, path) ==
    LET t == read_csv(dir, path)
        missing == Range(t.columns) \ REQUIRED_COLUMNS
    IN IF missing # {}
       THEN [raised |-> TRUE, err |-> ValueError(path, missing, t.columns), df |-> EmptyTable]
       ELSE [raised |-> FALSE, err |-> NoError,
             df |-> [columns |-> t.columns,
                     rows |-> [i \in 1..Len(t.rows) |->
                        [c \in Range(t.columns) |->
                            CASE c = "quantity" -> to_numeric(t.rows[i][c])
                              [] c = "price" -> clean_price(t.rows[i][c])
                              [] c = "product" -> clean_product(t.rows[i][c])
                              [] OTHER -> t.rows[i][c]]]]]

\* the value is [raised, err, df]: the exception raised, or the table returned
load_and_validate_csv(dir, path) ==
    LET t == read_csv(dir, path)
        missing == REQUIRED_COLUMNS \ Range(t.columns)
    IN IF missing # {}
       THEN [raised |-> TRUE, err |-> ValueError(path, missing, t.columns), df |-> EmptyTable]
       ELSE [raised |-> FALSE, err |-> NoError,
             df |-> [columns |-> t.columns,
                     rows |-> [i \in 1..Len(t.rows) |->
                        [c \in Range(t.columns) |->
                            CASE c = "quantity" -> to_numeric(t.rows[i][c])
                              [] c = "price" -> clean_price(t.rows[i][c])
                              [] c = "product" -> clean_product(t.rows[i][c])
                              [] OTHER -> t.rows[i][c]]]]]

\* mutant: quantity and price are added
sales_of_sum(r) ==
    LET e == IF r["quantity"].e >= r["price"].e THEN r["quantity"].e ELSE r["price"].e
    IN Num(r["quantity"].m * Pow10(e - r["quantity"].e) + r["price"].m * Pow10(e - r["price"].e), e)

\* df["quantity"] * df["price"], one row
sales_of(r) == Mul(r["quantity"], r["price"])

\* mutant: the columns are projected but not renamed
build_frame_norename(fs) ==
    LET all == concat(fs)
        pink == boolean_index(all, [i \in 1..Len(all.rows) |-> all.rows[i]["product"] = Text(PinkMorsel)])
        valid == dropna(pink, {"quantity", "price"})
        withSales == assign_column(valid, "Sales", [i \in 1..Len(valid.rows) |-> sales_of(valid.rows[i])])
    IN select_columns(withSales, <<"Sales", "date", "region">>)

\* lines 65-81 of build_output, from the loaded frames on
build_frame(fs) ==
    LET all == concat(fs)
        pink == boolean_index(all, [i \in 1..Len(all.rows) |-> all.rows[i]["product"] = Text(PinkMorsel)])
        valid == dropna(pink, {"quantity", "price"})
        withSales == assign_column(valid, "Sales", [i \in 1..Len(valid.rows) |-> sales_of(valid.rows[i])])
    IN set_columns(select_columns(withSales, <<"Sales", "date", "region">>),
                   <<"Sales", "Date", "Region">>)

\* out.to_csv(path, index=False): the header line and the rows
to_csv(t) ==
    [exists |-> TRUE, header |-> t.columns,
     rows |-> [i \in 1..Len(t.rows) |-> [k \in 1..Len(t.columns) |-> t.rows[i][t.columns[k]]]]]

\* no file at the output path
NoFile == [exists |-> FALSE, header |-> <<>>, rows |-> <<>>]

\* build_output, lines 61-63
FindFiles ==
    /\ pc = "start"
    /\ \E listing \in Listings(glob_csv(data_dir)) : files' = find_csv_files(listing)
    /\ IF files' = <<>>
       THEN pc' = "except" /\ err' = FileNotFoundError
       ELSE pc' = "loading" /\ err' = err
    /\ UNCHANGED <<astype_str_keeps_na, data_dir, frames, out, output_file, stdout, stderr, exit_code>>
    /\ UNCHANGED dash_vars

\* build_output, line 65: one iteration of the list comprehension
LoadFile ==
    /\ pc = "loading"
    /\ Len(frames) < Len(files)
    /\ LET r == load_and_validate_csv(data_dir, files[Len(frames) + 1])
       IN IF r.raised
          THEN pc' = "except" /\ err' = r.err /\ frames' = frames
          ELSE pc' = pc /\ err' = err /\ frames' = Append(frames, r.df)
    /\ UNCHANGED <<astype_str_keeps_na, data_dir, files, out, output_file, stdout, stderr, exit_code>>
    /\ UNCHANGED dash_vars

\* build_output, lines 65-81: all files are loaded
BuildFrame ==
    /\ pc = "loading"
    /\ Len(frames) = Len(files)
    /\ out' = build_frame(frames)
    /\ pc' = "built"
    /\ UNCHANGED <<astype_str_keeps_na, data_dir, files, frames, err, output_file, stdout, stderr, exit_code>>
    /\ UNCHANGED dash_vars

\* main, lines 94-96
WriteOutput ==
    /\ pc = "built"
    /\ output_file' = to_csv(out)
    /\ stdout' = <<Len(out.rows)>>
    /\ exit_code' = 0
    /\ pc' = "done"
    /\ UNCHANGED <<astype_str_keeps_na, data_dir, files, frames, out, err, stderr>>
    /\ UNCHANGED dash_vars

\* mutant: the exception handler returns 0
HandleException_zero ==
    /\ pc = "except"
    /\ stderr' = <<err>>
    /\ exit_code' = 0
    /\ pc' = "done"
    /\ UNCHANGED <<astype_str_keeps_na, data_dir, files, frames, out, err, output_file, stdout>>
    /\ UNCHANGED dash_vars

\* main, lines 97-99
HandleException ==
    /\ pc = "except"
    /\ stderr' = <<err>>
    /\ exit_code' = 1
    /\ pc' = "done"
    /\ UNCHANGED <<astype_str_keeps_na, data_dir, files, frames, out, err, output_file, stdout>>
    /\ UNCHANGED dash_vars

main == FindFiles \/ LoadFile \/ BuildFrame \/ WriteOutput \/ HandleException

----------------------------------------------------------------------------
(* Inputs of the ETL script *)

T_north == <<"n", "o", "r", "t", "h">>

T_south == <<"s", "o", "u", "t", "h">>

T_jan10 == <<"2", "0", "2", "1", "-", "0", "1", "-", "1", "0">>

T_jan20 == <<"2", "0", "2", "1", "-", "0", "1", "-", "2", "0">>

RawRow(product, quantity, price, date, region) ==
    [product |-> product, quantity |-> quantity, price |-> price, date |-> date,
     region |-> region, id |-> Text(<<"7">>)]

\* rows of the transaction files: pink morsel rows (one padded, with a
\* thousands separator and no region), other products, a capitalised product,
\* a missing product, a non-numeric quantity, a non-numeric price
RowPool ==
    { RawRow(Text(PinkMorsel), Text(<<"2">>), Text(<<"$", "3", ".", "0", "0">>), Text(T_jan10), Text(T_north)),
      RawRow(Text(<<" ">> \o PinkMorsel \o <<" ">>), Text(<<"3">>),
             Text(<<"$", "1", ",", "2", "0", "0", ".", "5", "0">>), Text(T_jan20), NaN),
      RawRow(Text(<<"g", "o", "l", "d", " ", "m", "o", "r", "s", "e", "l">>), Text(<<"2">>),
             Text(<<"$", "3", ".", "0", "0">>), Text(T_jan10), Text(T_north)),
      RawRow(Text(<<"P", "i", "n", "k", " ", "M", "o", "r", "s", "e", "l">>), Text(<<"2">>),
             Text(<<"$", "3", ".", "0", "0">>), Text(T_jan20), Text(T_south)),
      RawRow(NaN, Text(<<"2">>), Text(<<"$", "3", ".", "0", "0">>), Text(T_jan10), Text(T_north)),
      RawRow(Text(PinkMorsel), Text(<<"x">>), Text(<<"$", "3", ".", "0", "0">>), Text(T_jan20), Text(T_north)),
      RawRow(Text(PinkMorsel), Text(<<"2">>), Text(<<"$", "x">>), Text(T_jan20), Text(T_south)) }

\* headers with every required column, one with an extra column
FullHeaders ==
    { <<"product", "price", "quantity", "date", "region">>,
      <<"id", "product", "price", "quantity", "date", "region">> }

\* headers that lack required columns
ShortHeaders ==
    { <<"product", "quantity", "date", "region">>,
      <<"id", "price", "date">> }

TxtName == <<"n", "o", "t", "e", "s", ".", "t", "x", "t">>

NamePool == { <<"a", ".", "c", "s", "v">>, <<"b", ".", "c", "s", "v">>, TxtName }

RECURSIVE SeqsOfLen(_, _)
SeqsOfLen(S, n) ==
    IF n = 0 THEN {<<>>} ELSE {Append(q, x) : q \in SeqsOfLen(S, n - 1), x \in S}

\* the tables of at most MaxRows rows; a table that lacks required columns has no rows
Tables ==
    UNION { { [columns |-> cols, rows |-> [i \in 1..n |-> [c \in Range(cols) |-> rs[i][c]]]] :
                cols \in FullHeaders, rs \in SeqsOfLen(RowPool, n) } : n \in 0..MaxRows }
    \cup {[columns |-> cols, rows |-> <<>>] : cols \in ShortHeaders}

RECURSIVE TotalRows(_, _)
TotalRows(ts, S) ==
    IF S = {} THEN 0
    ELSE LET n == CHOOSE n \in S : TRUE IN Len(ts[n].rows) + TotalRows(ts, S \ {n})

\* the directory of the *.csv files ts and, when txt, of a text file, which holds no table
Directory(ts, txt) ==
    [n \in DOMAIN ts \cup (IF txt THEN {TxtName} ELSE {}) |-> IF n \in DOMAIN ts THEN ts[n] ELSE EmptyTable]

----------------------------------------------------------------------------
(* app.py *)

T_all == <<"a", "l", "l">>

T_east == <<"e", "a", "s", "t">>

T_west == <<"w", "e", "s", "t">>

\* lines 59-65: the values of the region-filter options
RegionOptions == {T_all, T_north, T_east, T_south, T_west}

\* line 125: the price increase marker
inc_date == 20210115

DaysInMonth(y, mo) ==
    IF mo \in {4, 6, 9, 11} THEN 30
    ELSE IF mo = 2 THEN (IF y % 4 = 0 /\ (y % 100 # 0 \/ y % 400 = 0) THEN 29 ELSE 28)
    ELSE 31

\* pd.to_datetime(errors="coerce") on one cell, for texts of the form YYYY-MM-DD
to_datetime(c) ==
    IF c.k = "ts" THEN c
    ELSE IF c.k # "text" THEN NaN
    ELSE LET t == c.s IN
         IF /\ Len(t) = 10
            /\ t[5] = "-" /\ t[8] = "-"
            /\ \A i \in {1, 2, 3, 4, 6, 7, 9, 10} : t[i] \in Digits
         THEN LET y == DigitsToInt(SubSeq(t, 1, 4))
                  mo == DigitsToInt(SubSeq(t, 6, 7))
                  d == DigitsToInt(SubSeq(t, 9, 10))
              IN IF mo \in 1..12 /\ d >= 1 /\ d <= DaysInMonth(y, mo)
                 THEN Timestamp(y * 10000 + mo * 100 + d)
                 ELSE NaN
         ELSE NaN

\* c.strip().lower() on a column name
lower_name(c) ==
    CASE c = "Sales" -> "sales" [] c = "Date" -> "date" [] c = "Region" -> "region" [] OTHER -> c

\* line 29: the region column, one cell
clean_region(c) == cell_lower(cell_strip(astype_str(c)))

\* lines 25-32: the module-level table, from the table read at line 23
load_data(t) ==
    LET names == [i \in 1..Len(t.columns) |-> lower_name(t.columns[i])]
        renamed == set_columns(t, names)
        coerced == [columns |-> names,
                    rows |-> [i \in 1..Len(renamed.rows) |->
                        [c \in Range(names) |->
                            CASE c = "date" -> to_datetime(renamed.rows[i][c])
                              [] c = "sales" -> to_numeric(renamed.rows[i][c])
                              [] c = "region" -> clean_region(renamed.rows[i][c])
                              [] OTHER -> renamed.rows[i][c]]]]
    IN dropna(coerced, {"date", "sales", "region"})

Max(a, b) == IF a >= b THEN a ELSE b

Add(a, b) ==
    LET e == Max(a.e, b.e) IN Num(a.m * Pow10(e - a.e) + b.m * Pow10(e - b.e), e)

\* mutant: the selection is ignored
filter_region_all(t, region) == t

\* lines 96-99
filter_region(t, region) ==
    IF region = T_all THEN t
    ELSE boolean_index(t, [i \in 1..Len(t.rows) |-> t.rows[i]["region"] = Text(region)])

\* Series.sum() over the rows of one group, in row order
RECURSIVE sum_sales(_)
sum_sales(rows) ==
    IF rows = <<>> THEN Num(0, 0) ELSE Add(sum_sales(SubSeq(rows, 1, Len(rows) - 1)), rows[Len(rows)]["sales"])

\* the group keys of groupby("date"): the distinct dates, ascending
RECURSIVE group_keys(_)
group_keys(ks) ==
    IF ks = {} THEN <<>>
    ELSE LET lo == CHOOSE x \in ks : \A y \in ks : x.m <= y.m
         IN <<lo>> \o group_keys(ks \ {lo})

\* groupby("date", as_index=False)["sales"].sum()
groupby_date_sum(t) ==
    LET keys == group_keys({t.rows[i]["date"] : i \in 1..Len(t.rows)})
    IN [k \in 1..Len(keys) |->
           [date |-> keys[k],
            sales |-> sum_sales(take(t.rows, [i \in 1..Len(t.rows) |-> t.rows[i]["date"] = keys[k]]))]]

\* sort_values("date"): a stable insertion of each point among the earlier ones
RECURSIVE sort_values(_)
sort_values(ps) ==
    IF ps = <<>> THEN <<>>
    ELSE LET rest == sort_values(SubSeq(ps, 1, Len(ps) - 1))
             p == ps[Len(ps)]
         IN SelectSeq(rest, LAMBDA q : q.date.m <= p.date.m) \o <<p>>
            \o SelectSeq(rest, LAMBDA q : q.date.m > p.date.m)

\* lines 101-105
daily_of(t, region) == sort_values(groupby_date_sum(filter_region(t, region)))

NoFigure == [drawn |-> FALSE, daily |-> <<>>, marker |-> 0]

\* lines 107-152: the line through the daily points, and the marker
make_figure(daily) == [drawn |-> TRUE, daily |-> daily, marker |-> inc_date]

\* lines 23-32 and the layout's initial selection (line 66)
LoadData ==
    /\ app_pc = "import"
    /\ df' = load_data(extract)
    /\ selection' = T_all
    /\ app_pc' = "serving"
    /\ UNCHANGED <<astype_str_keeps_na, extract, figure, first_figure>>
    /\ UNCHANGED etl_vars

\* mutant: the callback filters the module-level table in place
update_chart_inplace(region) ==
    /\ app_pc = "serving"
    /\ selection' = region
    /\ df' = filter_region(df, region)
    /\ figure' = make_figure(daily_of(df', region))
    /\ first_figure' = IF first_figure[region].drawn THEN first_figure
                       ELSE [first_figure EXCEPT ![region] = figure']
    /\ UNCHANGED <<astype_str_keeps_na, extract, app_pc>>
    /\ UNCHANGED etl_vars

\* lines 91-152: the callback, fired with the value of the region filter
update_chart(region) ==
    /\ app_pc = "serving"
    /\ selection' = region
    /\ figure' = make_figure(daily_of(df, region))
    /\ first_figure' = IF first_figure[region].drawn THEN first_figure
                       ELSE [first_figure EXCEPT ![region] = figure']
    /\ UNCHANGED <<astype_str_keeps_na, extract, app_pc, df>>
    /\ UNCHANGED etl_vars

----------------------------------------------------------------------------
(* Inputs of the dashboard *)

T_jan05 == <<"2", "0", "2", "1", "-", "0", "1", "-", "0", "5">>

ExtractRow(sales, date, region) == [Sales |-> sales, Date |-> date, Region |-> region]

\* rows of the extract: two regions on one date, an earlier date with a
\* padded capitalised region, invalid sales, an invalid date, a missing region
ExtractRowPool ==
    { ExtractRow(Text(<<"6", ".", "0">>), Text(T_jan10), Text(T_north)),
      ExtractRow(Text(<<"3", ".", "5">>), Text(T_jan10), Text(T_south)),
      ExtractRow(Text(<<"4">>), Text(T_jan05), Text(<<" ", "N", "o", "r", "t", "h", " ">>)),
      ExtractRow(Text(<<"x">>), Text(T_jan10), Text(T_north)),
      ExtractRow(Text(<<"1">>), Text(<<"2", "0", "2", "1", "-", "1", "3", "-", "0", "1">>), Text(T_east)),
      ExtractRow(Text(<<"5">>), Text(T_jan10), NaN) }

ExtractHeader == <<"Sales", "Date", "Region">>

Extracts ==
    UNION { { [columns |-> ExtractHeader, rows |-> rs] : rs \in SeqsOfLen(ExtractRowPool, n) } :
            n \in 0..MaxExtractRows }

EtlOff ==
    /\ data_dir = Directory(<<>>, FALSE)
    /\ pc = "off"
    /\ files = <<>>
    /\ frames = <<>>
    /\ out = EmptyTable
    /\ err = NoError
    /\ output_file = NoFile
    /\ stdout = <<>>
    /\ stderr = <<>>
    /\ exit_code = -1

EtlStart ==
    /\ pc = "start"
    /\ files = <<>>
    /\ frames = <<>>
    /\ out = EmptyTable
    /\ err = NoError
    /\ output_file = NoFile
    /\ stdout = <<>>
    /\ stderr = <<>>
    /\ exit_code = -1

DashOff ==
    /\ extract = EmptyTable
    /\ app_pc = "off"
    /\ df = EmptyTable
    /\ selection = <<>>
    /\ figure = NoFigure
    /\ first_figure = [r \in RegionOptions |-> NoFigure]

\* the ETL script, run on a data directory
InitETL ==
    /\ astype_str_keeps_na \in BOOLEAN
    /\ \E names \in SUBSET (NamePool \ {TxtName}) : \E ts \in [names -> Tables] : \E txt \in BOOLEAN :
          /\ TotalRows(ts, names) <= MaxRows
          /\ data_dir = Directory(ts, txt)
    /\ EtlStart
    /\ DashOff

Next == main

Spec == InitETL /\ [][Next]_vars

\* the dashboard, started on an extract
InitDash ==
    /\ astype_str_keeps_na \in BOOLEAN
    /\ extract \in Extracts
    /\ app_pc = "import"
    /\ df = EmptyTable
    /\ selection = <<>>
    /\ figure = NoFigure
    /\ first_figure = [r \in RegionOptions |-> NoFigure]
    /\ EtlOff

NextDash == LoadData \/ \E region \in RegionOptions : update_chart(region)

SpecDash == InitDash /\ [][NextDash]_vars

PriceAlphabet == {"$", ",", ".", " ", "x", "0", "1"}

\* the price cells: every text over the alphabet up to the bound, the prices
\* of the transaction files, and a missing price
PriceCells ==
    {Text(s) : s \in UNION {SeqsOfLen(PriceAlphabet, n) : n \in 0..MaxPriceLen}}
    \cup {r["price"] : r \in RowPool} \cup {NaN}

PriceFile == <<"a", ".", "c", "s", "v">>

\* the ETL script, loading a file of one pink morsel row with any price
InitPrice ==
    /\ astype_str_keeps_na \in BOOLEAN
    /\ \E p \in PriceCells :
          data_dir = [n \in {PriceFile} |->
                        [columns |-> <<"product", "price", "quantity", "date", "region">>,
                         rows |-> <<[product |-> Text(PinkMorsel), price |-> p,
                                     quantity |-> Text(<<"2">>), date |-> Text(T_jan10),
                                     region |-> Text(T_north)]>>]]
    /\ EtlStart
    /\ DashOff

NextPrice == FindFiles \/ LoadFile

SpecPrice == InitPrice /\ [][NextPrice]_vars

----------------------------------------------------------------------------
(* Vocabulary of the properties *)

Spaces(n) == [i \in 1..n |-> " "]

\* the text is "pink morsel" with any number of spaces before and after it
IsPinkMorselCell(c) ==
    /\ c.k = "text"
    /\ Len(c.s) >= Len(PinkMorsel)
    /\ \E a \in 0..(Len(c.s) - Len(PinkMorsel)) :
          c.s = Spaces(a) \o PinkMorsel \o Spaces(Len(c.s) - Len(PinkMorsel) - a)

EndsWithCsv(n) == \E k \in 1..Len(n) : k > 1 /\ SubSeq(n, k, Len(n)) = CsvSuffix

\* the names of the *.csv files of the directory
CsvEntries == {n \in DOMAIN data_dir : EndsWithCsv(n)}

\* the *.csv files that lack a required column
ShortEntries == {n \in CsvEntries : ~(REQUIRED_COLUMNS \subseteq Range(data_dir[n].columns))}

\* a pink morsel row whose quantity and cleaned price are numeric
Retained(r) ==
    /\ IsPinkMorselCell(r["product"])
    /\ ~isna(to_numeric(r["quantity"]))
    /\ ~isna(clean_price(r["price"]))

\* the number s is quantity times price of the input row r
SalesIs(s, r) ==
    LET q == to_numeric(r["quantity"])
        p == clean_price(r["price"])
    IN /\ s.k = "num" /\ q.k = "num" /\ p.k = "num"
       /\ s.m * Pow10(q.e + p.e) = q.m * p.m * Pow10(s.e)

\* the output row o is the input row r with its sales, date and region
Emitted(o, r) ==
    /\ DOMAIN o = {"Sales", "Date", "Region"}
    /\ SalesIs(o["Sales"], r)
    /\ o["Date"] = r["date"]
    /\ o["Region"] = r["region"]

\* build_output has returned
Built == pc = "built" \/ (pc = "done" /\ exit_code = 0)

\* the input rows as pairs <<file name, position>>
InputRows == UNION { {<<n, j>> : j \in 1..Len(data_dir[n].rows)} : n \in CsvEntries }

RowAt(nj) == data_dir[nj[1]].rows[nj[2]]

\* <<n, j>> comes before <<o, l>>: by file name, then by position in the file
Before(a, b) ==
    \/ StrLess(a[1], b[1])
    \/ a[1] = b[1] /\ a[2] < b[2]

RetainedRows == {nj \in InputRows : Retained(RowAt(nj))}

\* the n-th of the rows R, by file name and then by position
Nth(R, n) == CHOOSE nj \in R : Cardinality({x \in R : Before(x, nj)}) = n - 1

----------------------------------------------------------------------------
(* Properties of the ETL script *)

\* C1: every input row whose trimmed product is "pink morsel" and whose
\* quantity and cleaned price are numeric has a row in the table build_output
\* returns, with Sales = quantity * price and the row's date and region unchanged
C1_SalesIsQuantityTimesPrice ==
    Built => \A nj \in RetainedRows :
                \E k \in 1..Len(out.rows) : Emitted(out.rows[k], RowAt(nj))

\* C1 witness: the run has written a row for the padded pink morsel row priced "$1,200.50"
C1_Witness ==
    /\ pc = "done" /\ exit_code = 0
    /\ \E nj \in RetainedRows :
          /\ RowAt(nj)["price"] = Text(<<"$", "1", ",", "2", "0", "0", ".", "5", "0">>)
          /\ \E k \in 1..Len(out.rows) :
                out.rows[k]["Sales"] = Num(360150, 2) /\ Emitted(out.rows[k], RowAt(nj))

\* C2: every row of the output derives from an input row whose trimmed
\* product is exactly "pink morsel": no output row is left over once each is
\* matched with a pink morsel input row of its own
C2_OnlyPinkMorselRows ==
    Built =>
        LET pink == {nj \in InputRows : IsPinkMorselCell(RowAt(nj)["product"])} IN
        /\ Len(out.rows) <= Cardinality(pink)
        /\ \A k \in 1..Len(out.rows) :
              Cardinality({l \in 1..Len(out.rows) : out.rows[l] = out.rows[k]})
                <= Cardinality({nj \in pink : Emitted(out.rows[k], RowAt(nj))})

\* C2 witness: the input held a capitalised, another or a missing product and a pink morsel row, and one row came out
C2_Witness ==
    /\ pc = "done" /\ exit_code = 0
    /\ Len(out.rows) = 1
    /\ \E nj \in InputRows : ~IsPinkMorselCell(RowAt(nj)["product"])
                             /\ ~isna(to_numeric(RowAt(nj)["quantity"]))
                             /\ ~isna(clean_price(RowAt(nj)["price"]))

\* C3: on a directory without any *.csv file main returns 1 and the output file is never written
C3_NoCsvFilesExitOne ==
    CsvEntries = {} /\ pc # "off" =>
        /\ ~output_file.exists
        /\ pc = "done" => exit_code = 1

\* C3 witness: main has returned on a directory that holds only a text file
C3_Witness == pc = "done" /\ DOMAIN data_dir = {TxtName} /\ exit_code = 1

\* C4: when an input file lacks required columns main returns non-zero, the
\* error names such a file (the first by name) and its missing columns, and
\* the output file is never written
C4_MissingColumnsAborts ==
    ShortEntries # {} =>
        /\ ~output_file.exists
        /\ pc = "done" =>
              /\ exit_code = 1
              /\ Len(stderr) = 1
              /\ \E n \in ShortEntries :
                    /\ stderr[1].type = "ValueError"
                    /\ stderr[1].path = n
                    /\ \A o \in ShortEntries : ~StrLess(o, n)
                    /\ stderr[1].missing = REQUIRED_COLUMNS \ Range(data_dir[n].columns)

\* C4 witness: main has returned after a valid file with a retained row was loaded before the failing one
C4_Witness ==
    /\ pc = "done" /\ exit_code = 1
    /\ Len(frames) = 1 /\ Len(frames[1].rows) = 1
    /\ RetainedRows # {}
    /\ ShortEntries # {}

\* C8: the columns of the table build_output returns, and the header of the
\* written file, are exactly Sales, Date, Region in that order
C8_OutputColumns ==
    /\ Built => out.columns = <<"Sales", "Date", "Region">>
    /\ output_file.exists => output_file.header = <<"Sales", "Date", "Region">>

\* C8 witness: a file with no retained row was written from input that had rows and an extra column
C8_Witness ==
    /\ output_file.exists /\ output_file.rows = <<>>
    /\ InputRows # {}
    /\ \E n \in CsvEntries : "id" \in Range(data_dir[n].columns)

\* C10: the output has one row per retained input row, in the order of the
\* files sorted by path and then of the rows in each file, and a row with a
\* non-numeric quantity or price is dropped without an error
C10_OneRowPerRetainedInOrder ==
    LET R == RetainedRows IN
    /\ Built =>
          /\ Len(out.rows) = Cardinality(R)
          /\ \A n \in 1..Len(out.rows) : Emitted(out.rows[n], RowAt(Nth(R, n)))
    /\ (pc = "done" /\ CsvEntries # {} /\ ShortEntries = {}) =>
          exit_code = 0 /\ stderr = <<>> /\ Len(output_file.rows) = Cardinality(R)

\* C10 witness: two files with a different retained row each have been written as two rows
C10_Witness ==
    /\ pc = "done" /\ exit_code = 0
    /\ Len(out.rows) = 2
    /\ \E a \in RetainedRows : \E b \in RetainedRows : a[1] # b[1] /\ RowAt(a) # RowAt(b)

\* C10 witness of a dropped row: a file with a retained row and a row of non-numeric quantity has been written as one row
C10_DroppedWitness ==
    /\ pc = "done" /\ exit_code = 0
    /\ Len(out.rows) = 1
    /\ \E nj \in InputRows : IsPinkMorselCell(RowAt(nj)["product"]) /\ isna(to_numeric(RowAt(nj)["quantity"]))

----------------------------------------------------------------------------
(* Properties of price cleaning *)

\* an optional "$", digits with "," separators starting with a digit, and an
\* optional decimal part of digits
WellFormedPrice(s) ==
    \E a \in 0..1 : \E b \in 1..Len(s) : \E c \in 0..Len(s) :
        /\ a + b + c = Len(s)
        /\ a = 1 => s[1] = "$"
        /\ s[a + 1] \in Digits
        /\ s[a + b] \in Digits
        /\ \A i \in (a + 1)..(a + b) : s[i] \in Digits \cup {","}
        /\ c > 0 => /\ c > 1
                    /\ s[a + b + 1] = "."
                    /\ \A i \in (a + b + 2)..Len(s) : s[i] \in Digits

DigitPositions(s) == {i \in 1..Len(s) : s[i] \in Digits}

\* the integer written by the digits of s alone
RECURSIVE DigitsAlone(_, _)
DigitsAlone(s, I) ==
    IF I = {} THEN 0
    ELSE LET i == CHOOSE i \in I : TRUE
         IN DigitVal(s[i]) * Pow10(Cardinality({j \in DigitPositions(s) : j > i})) + DigitsAlone(s, I \ {i})

\* the digits of s after its "."
DecimalsOf(s) == Cardinality({i \in DigitPositions(s) : \E j \in 1..(i - 1) : s[j] = "."})

\* the text without "$" and "," and without the spaces around it is not a decimal literal
NotNumericAfterCleaning(s) ==
    \A t \in {SubSeq(s, i, j) : i \in 1..(Len(s) + 1), j \in 0..Len(s)} :
        (\E a \in 0..Len(s) : \E b \in 0..Len(s) :
            /\ SelectSeq(s, LAMBDA ch : ch \notin {"$", ","}) = Spaces(a) \o SelectSeq(t, LAMBDA ch : ch \notin {"$", ","}) \o Spaces(b)
            /\ (t # <<>> => t[1] # " " /\ t[Len(t)] # " "))
        => ~IsDecimalLiteral(SelectSeq(t, LAMBDA ch : ch \notin {"$", ","}))

RawPrice == data_dir[PriceFile].rows[1]["price"]

\* C9: a price of an optional "$", digits with "," separators and an optional
\* decimal part is cleaned to the number its digits write; a price that is not
\* numeric once "$", "," and the surrounding spaces are removed becomes
\* missing, and no error is raised
C9_PriceCleaning ==
    /\ pc # "except"
    /\ Len(frames) = 1 =>
          LET got == frames[1].rows[1]["price"] IN
          /\ (RawPrice.k = "text" /\ WellFormedPrice(RawPrice.s)) =>
                /\ got.k = "num"
                /\ got.m * Pow10(DecimalsOf(RawPrice.s))
                     = DigitsAlone(RawPrice.s, DigitPositions(RawPrice.s)) * Pow10(got.e)
          /\ (RawPrice.k = "text" /\ NotNumericAfterCleaning(RawPrice.s)) => isna(got)

\* C9 witness: "$1,200.50" has been cleaned to 1200.50
C9_Witness ==
    /\ Len(frames) = 1
    /\ RawPrice = Text(<<"$", "1", ",", "2", "0", "0", ".", "5", "0">>)
    /\ frames[1].rows[1]["price"] = Num(120050, 2)

----------------------------------------------------------------------------
(* Properties of the dashboard *)

\* the rows of the extract that miss none of Date, Sales and Region
CompleteRows ==
    {i \in 1..Len(extract.rows) :
        /\ ~isna(to_datetime(extract.rows[i]["Date"]))
        /\ ~isna(to_numeric(extract.rows[i]["Sales"]))
        /\ ~isna(extract.rows[i]["Region"])}

\* C5: the loaded table holds exactly the rows of the extract that miss none
\* of Date, Sales and Region; a row with an empty Region is dropped
C5_LoaderDropsIncompleteRows ==
    app_pc = "serving" =>
        /\ Len(df.rows) = Cardinality(CompleteRows)
        /\ \A i \in 1..Len(df.rows) : \A c \in {"date", "sales", "region"} :
              df.rows[i][c].k \in {"ts", "num", "text"}
        /\ \A i \in 1..Len(df.rows) :
              \E j \in CompleteRows : df.rows[i]["region"] = clean_region(extract.rows[j]["Region"])

\* the loaded rows the selection r selects
Selected(r) == {i \in 1..Len(df.rows) : r = T_all \/ df.rows[i]["region"] = Text(r)}

\* the sum of the sales of the loaded rows I, in units of 10^-e
RECURSIVE ScaledSum(_, _)
ScaledSum(I, e) ==
    IF I = {} THEN 0
    ELSE LET i == CHOOSE i \in I : TRUE
         IN df.rows[i]["sales"].m * Pow10(e - df.rows[i]["sales"].e) + ScaledSum(I \ {i}, e)

\* the largest number of decimals among the loaded sales and the point p
ScaleOf(p) ==
    CHOOSE e \in 0..20 :
        /\ e >= p.e
        /\ \A i \in 1..Len(df.rows) : e >= df.rows[i]["sales"].e
        /\ e = p.e \/ \E i \in 1..Len(df.rows) : e = df.rows[i]["sales"].e

\* C6: the chart has one point per distinct date of the selected rows, in
\* ascending date order, each the sum of the sales of the selected rows of
\* that date; "all" selects every loaded row
C6_ChartIsDailySum ==
    (app_pc = "serving" /\ figure.drawn) =>
        LET sel == Selected(selection)
            dates == {df.rows[i]["date"] : i \in sel}
            daily == figure.daily
        IN /\ Len(daily) = Cardinality(dates)
           /\ \A k \in 1..Len(daily) : daily[k].date \in dates
           /\ \A k \in 1..Len(daily) : \A l \in 1..Len(daily) :
                 k < l => daily[k].date.m < daily[l].date.m
           /\ \A k \in 1..Len(daily) :
                 LET e == ScaleOf(daily[k].sales) IN
                 /\ daily[k].sales.k = "num"
                 /\ daily[k].sales.m * Pow10(e - daily[k].sales.e)
                      = ScaledSum({i \in sel : df.rows[i]["date"] = daily[k].date}, e)

\* C6 witness: north 6.00 and south 3.50 on one date are charted as 9.50 for "all"
C6_Witness ==
    /\ app_pc = "serving" /\ figure.drawn /\ selection = T_all
    /\ Len(df.rows) = 2
    /\ \E i \in 1..2 : df.rows[i]["region"] = Text(T_north) /\ df.rows[i]["sales"] = Num(6, 0)
    /\ \E i \in 1..2 : df.rows[i]["region"] = Text(T_south) /\ df.rows[i]["sales"] = Num(35, 1)
    /\ figure.daily = <<[date |-> Timestamp(20210110), sales |-> Num(95, 1)]>>

\* C7: the figure drawn for a selection is the figure first drawn for that
\* selection, whatever was selected in between
C7_ChartDependsOnSelectionOnly ==
    (app_pc = "serving" /\ figure.drawn) => figure = first_figure[selection]

\* C7 witness: "all" is selected after "north" had drawn another curve
C7_Witness ==
    /\ app_pc = "serving" /\ figure.drawn /\ selection = T_all
    /\ first_figure[T_north].drawn
    /\ first_figure[T_north] # first_figure[T_all]
    /\ first_figure[T_north].daily # <<>>

====
